---- MODULE Spec2Model ----
(***************************************************************************)
(* KIAUH menu framework: core/menus/base_menu.py (BaseMenu: validation of  *)
(* one input line, the run loop, dispatch and navigation) and              *)
(* core/menus/advanced_menu.py (AdvancedMenu).                             *)
(*                                                                         *)
(* The program is single threaded and blocks only in input().  One step of *)
(* the model is everything the interpreter does between two blocking reads *)
(* (or up to the end of the process): read one line, validate it, dispatch *)
(* it, and display/prompt whichever menu asks for the next line.  `out'    *)
(* holds what that one step wrote to the terminal, in order.               *)
(***************************************************************************)
EXTENDS Integers, Sequences, FiniteSets, TLC

VARIABLES
    subcfg,      \* class attributes of SubMenu (the menu whose attributes vary)
    menus,       \* live menu instances: id -> [cls, previous_menu, has_options]
    created,     \* number of menu instances constructed since start-up
    stack,       \* active run loops, outermost first; the last one is at input()
    status,      \* "init" | "built" | "running" | "returned" | "exit" | "error"
    exit_code,   \* argument of sys.exit, -1 while the process lives
    error,       \* class of the exception that ended the process, "" if none
    raw,         \* the line last typed by the user
    validated,   \* what validate_user_input returned for it
    at_menu,     \* id of the menu that read it (0: nothing read yet)
    at_cls,      \* class of that menu
    out          \* terminal/process events of the last step, in order

vars == <<subcfg, menus, created, stack, status, exit_code, error,
          raw, validated, at_menu, at_cls, out>>

----------------------------------------------------------------------------
(* Bounds *)

\* deepest nesting of run loops explored
MaxDepth == 6
\* menu instances constructed after start-up (by menu() or by a menu action)
MaxFresh == 2

----------------------------------------------------------------------------
(* Python values that can be an option, a validated choice or previous_menu *)

Val(k, c, i, f) == [kind |-> k, cls |-> c, inst |-> i, fn |-> f]
None == Val("None", "", 0, "")
Str(s) == Val("str", "", 0, s)
Callable(f) == Val("callable", "", 0, f)
Method(i, f) == Val("callable", "", i, f)
MenuType(c) == Val("type", c, 0, "")
MenuInst(i) == Val("inst", "", i, "")

\* one terminal/process event
E(ev, m, opt) == [ev |-> ev, m |-> m, opt |-> opt]

\* variant: the line is used as typed
LowerKeepsCase(s) == s

\* str.lower() on the lines the user can type
Lower(s) ==
    CASE s = "B" -> "b"
      [] s = "Q" -> "q"
      [] OTHER -> s

RawInputs == {"", "b", "q", "h", "x", "1", "2", "3", "4", "6", "B", "Q"}

----------------------------------------------------------------------------
(* core.menus: FooterType and NAVI_OPTIONS *)

FooterType == {"QUIT", "BACK", "BACK_HELP"}
\* a footer kind the footer renderer has no case for
UnknownFooter == "OTHER"

NAVI_OPTIONS ==
    [f \in FooterType |->
        CASE f = "QUIT" -> {"q"}
          [] f = "BACK" -> {"b"}
          [] f = "BACK_HELP" -> {"b", "h"}]

----------------------------------------------------------------------------
(* The menus of the application *)

PrebuiltCls == <<"MainMenu", "MenuB", "AdvancedMenu", "SubMenu">>
PrebuiltPrev == <<None, MenuType("MainMenu"), None, MenuType("MainMenu")>>
Prebuilt == DOMAIN PrebuiltCls

\* dict.get(key, None) on an option table written as a set of <<key, option>>
\* pairs, each key at most once
Get(pairs, key) ==
    IF \E p \in pairs : p[1] = key
    THEN (CHOOSE p \in pairs : p[1] = key)[2]
    ELSE None

\* the extra entries a SubMenu may carry under the navigation letters: none,
\* an action under each, or an action under "b" and "q" and the empty string
\* under "h"
ExtraEntries ==
    { {},
      { <<k, Callable("collide_action")>> : k \in {"b", "q", "h"} },
      { <<"b", Callable("collide_action")>>, <<"q", Callable("collide_action")>>,
        <<"h", Str("")>> } }

SubCfgs ==
    [footer_type : FooterType \cup {UnknownFooter},
     default_option : {None, Callable("help_action")},
     extra : ExtraEntries]

\* BaseMenu.footer_type and its overrides
footer_type(cls) ==
    CASE cls = "MainMenu" -> "QUIT"
      [] cls = "MenuB" -> "BACK_HELP"
      [] cls = "SubMenu" -> subcfg.footer_type
      [] OTHER -> "BACK"

\* BaseMenu.default_option and its overrides
default_option(cls) ==
    CASE cls = "MenuB" -> Callable("help_action")
      [] cls = "SubMenu" -> subcfg.default_option
      [] OTHER -> None

\* variant: the keys of build and flash are exchanged
AdvancedOptionsSwapped(self) ==
    { <<"3", Method(self, "flash")>>,
      <<"4", Method(self, "build")>>,
      <<"6", Method(self, "get_id")>> }

\* AdvancedMenu.set_options: the table it assigns to self.options
AdvancedOptions(self) ==
    { <<"3", Method(self, "build")>>,
      <<"4", Method(self, "flash")>>,
      <<"6", Method(self, "get_id")>> }

\* the option table of a menu once it is populated
ClassOptions(cls, self) ==
    CASE cls = "MainMenu" ->
            { <<"1", MenuType("MenuA")>>, <<"2", MenuInst(2)>>, <<"3", MenuInst(3)>>,
              <<"4", MenuType("AdvancedMenu")>> }
      [] cls = "MenuA" ->
            { <<"1", MenuType("SubMenu")>>, <<"2", MenuInst(4)>>,
              <<"3", Callable("build_action")>> }
      [] cls = "MenuB" ->
            { <<"1", MenuType("SubMenu")>>, <<"2", MenuInst(4)>> }
      [] cls = "SubMenu" ->
            { <<"1", MenuInst(2)>>, <<"3", Callable("build_action")>> }
                \cup subcfg.extra
      [] cls = "AdvancedMenu" -> AdvancedOptions(self)
      [] OTHER -> {}

\* whether the constructor of a class leaves self.options populated
PopulatesOptions(cls) == cls # "AdvancedMenu"

\* cls(previous_menu=prev): the new instance
Construct(cls, prev) ==
    [cls |-> cls, previous_menu |-> prev, has_options |-> PopulatesOptions(cls)]

----------------------------------------------------------------------------
(* BaseMenu.validate_user_input *)

Footer(self) == footer_type(menus[self].cls)
Default(self) == default_option(menus[self].cls)

\* self.options.get(usr_input, None)
OptionsGet(self, u) == Get(ClassOptions(menus[self].cls, self), u)

\* the exception validate_user_input raises, "" if none
ValidateError(self) ==
    IF ~menus[self].has_options THEN "AttributeError"
    ELSE IF Footer(self) \notin DOMAIN NAVI_OPTIONS THEN "KeyError"
    ELSE ""

\* variant: every navigation letter is honoured, whatever the footer kind
IsNavigationAnyFooter(footer, u) == u \in {"b", "q", "h"}

\* is_valid_navigation and user_navigated
IsNavigation(footer, u) ==
    footer \in DOMAIN NAVI_OPTIONS /\ u \in NAVI_OPTIONS[footer]

\* variant: the default is taken for an empty entry only
TakesDefaultEmptyEntryOnly(option, dflt) == option = Str("") /\ dflt # None

\* option is None or option == "" and self.default_option is not None
TakesDefault(option, dflt) ==
    option = None \/ (option = Str("") /\ dflt # None)

\* variant: the option table is consulted before the navigation tokens
validate_OptionFirst(self, usr_input) ==
    LET u == Lower(usr_input)
        option == OptionsGet(self, u)
    IN  IF option # None /\ option # Str("") THEN option
        ELSE IF IsNavigation(Footer(self), u) THEN Str(u)
        ELSE IF TakesDefault(option, Default(self)) THEN Default(self)
        ELSE None

validate_user_input(self, usr_input) ==
    LET u == Lower(usr_input)
        option == OptionsGet(self, u)
    IN  IF IsNavigation(Footer(self), u) THEN Str(u)
        ELSE IF TakesDefault(option, Default(self)) THEN Default(self)
        ELSE IF option # None THEN option
        ELSE None

----------------------------------------------------------------------------
(* Display *)

Top == stack[Len(stack)]
Frame(m, caller, via) == [menu |-> m, caller |-> caller, via |-> via]

\* variant: print_footer prints some footer for any footer kind
FooterPrintsAnyKind(cls) == TRUE

\* print_footer has a case for the footer kind
FooterPrints(cls) == footer_type(cls) \in {"QUIT", "BACK", "BACK_HELP"}

\* display_menu followed by the prompt of handle_user_input, for a menu of
\* class cls with id m; print_footer may raise instead
DisplayEvents(m, cls) ==
    IF FooterPrints(cls)
    THEN <<E("display_menu", m, None), E("prompt", m, None)>>
    ELSE <<E("print_menu", m, None), E("raise", m, Str("NotImplementedError"))>>

\* the events of reading one line in menu m
ReadEvents(m, tok) == <<E("input", m, Str(tok))>>

----------------------------------------------------------------------------
(* BaseMenu.run, BaseMenu.execute_option, BaseMenu.navigate_to_menu *)

\* variant: quit only leaves the innermost loop, like back
RunBranchQuitReturns(choice) ==
    IF choice = Str("q") \/ choice = Str("b") THEN "return" ELSE "execute"

\* run: which branch the loop takes on a validated choice
RunBranch(choice) ==
    IF choice = Str("q") THEN "quit"
    ELSE IF choice = Str("b") THEN "return"
    ELSE "execute"

\* variant: a callable option is not called
ExecuteBranchSkipsCallable(option) ==
    IF option = None THEN "raise"
    ELSE IF option.kind = "type" THEN "instantiate"
    ELSE IF option.kind = "inst" THEN "instance"
    ELSE "nothing"

\* variant: an option that is no menu and not callable is refused like None
ExecuteBranchRefusesStrings(option) ==
    IF option = None \/ option.kind = "str" THEN "raise"
    ELSE IF option.kind = "type" THEN "instantiate"
    ELSE IF option.kind = "inst" THEN "instance"
    ELSE "call"

\* execute_option: which branch it takes on an option
ExecuteBranch(option) ==
    IF option = None THEN "raise"
    ELSE IF option.kind = "type" THEN "instantiate"
    ELSE IF option.kind = "inst" THEN "instance"
    ELSE IF option.kind = "callable" THEN "call"
    ELSE "nothing"

\* navigate_to_menu: the value stamped on menu.previous_menu before menu.run()
StampedPrevious(ctor_prev, self) == MenuInst(self)

\* variant: back unwinds to the outermost menu
ReturnedToRoot(stk) == SubSeq(stk, 1, 1)

\* the run loops still active when the innermost one returns
Returned(stk) == SubSeq(stk, 1, Len(stk) - 1)

\* variant: a failure status
QuitCodeFailure == 0 + 1

\* sys.exit(0)
QuitCode == 0

\* the menu class each AdvancedMenu action constructs
ActionMenu(fn) ==
    CASE fn = "build" -> "KlipperBuildFirmwareMenu"
      [] fn = "flash" -> "KlipperFlashMethodMenu"
      [] fn = "get_id" -> "KlipperSelectMcuConnectionMenu"

\* AdvancedMenu.build/flash/get_id: the previous_menu argument they pass
ActionPrevious(self) == MenuType(menus[self].cls)

\* instances that are still referenced: the pre-built ones and those whose
\* run loop is active (the local of navigate_to_menu dies with the loop)
Live(ms, stk) ==
    [i \in { j \in DOMAIN ms : j \in Prebuilt \/ \E k \in DOMAIN stk : stk[k].menu = j }
        |-> ms[i]]

\* variant: menu() hands out the instance of the previous visit again
NewIdOfFirstVisit == Cardinality(Prebuilt) + 1

\* menu(): the identity of the new instance, different from every instance
\* constructed before
NewId == Cardinality(Prebuilt) + created + 1

StatusAfterDisplay(cls) == IF FooterPrints(cls) THEN "running" ELSE "error"
ErrorAfterDisplay(cls) == IF FooterPrints(cls) THEN "" ELSE "NotImplementedError"

----------------------------------------------------------------------------
(* Initial state: the application has built its menus, nothing runs yet.   *)
(* It has called set_options() on the AdvancedMenu it built itself; an      *)
(* AdvancedMenu that navigate_to_menu instantiates has self.options = None. *)

Init ==
    /\ subcfg \in SubCfgs
    /\ menus = [i \in Prebuilt |->
                  [Construct(PrebuiltCls[i], PrebuiltPrev[i]) EXCEPT !.has_options = TRUE]]
    /\ created = 0
    /\ stack = <<>>
    /\ status = "init"
    /\ exit_code = -1
    /\ error = ""
    /\ raw = ""
    /\ validated = None
    /\ at_menu = 0
    /\ at_cls = ""
    /\ out = <<>>

----------------------------------------------------------------------------
(* Steps taken by the application before the session *)

\* the application calls run() on the main menu: first display and prompt
Start ==
    /\ status = "init"
    /\ stack' = <<Frame(1, 0, "start")>>
    /\ status' = StatusAfterDisplay(menus[1].cls)
    /\ error' = ErrorAfterDisplay(menus[1].cls)
    /\ out' = DisplayEvents(1, menus[1].cls)
    /\ UNCHANGED <<subcfg, menus, created, exit_code,
                   raw, validated, at_menu, at_cls>>

----------------------------------------------------------------------------
(* One line of input in the innermost run loop *)

AtPrompt == status = "running" /\ stack # <<>>

\* handle_user_input: input().lower(), then validate_user_input
Validated(tok) == validate_user_input(Top.menu, Lower(tok))

\* what every input step records
Reads(tok, result) ==
    /\ raw' = tok
    /\ validated' = result
    /\ at_menu' = Top.menu
    /\ at_cls' = menus[Top.menu].cls

\* validate_user_input raises: the exception leaves every run loop
InputRaises(tok) ==
    /\ AtPrompt
    /\ ValidateError(Top.menu) # ""
    /\ Reads(tok, None)
    /\ status' = "error"
    /\ error' = ValidateError(Top.menu)
    /\ out' = ReadEvents(Top.menu, tok)
                \o <<E("raise", Top.menu, Str(ValidateError(Top.menu)))>>
    /\ UNCHANGED <<subcfg, menus, created, stack, exit_code>>

\* variant: handle_user_input returns whatever the validation gave
IsValidAlways(v) == TRUE

\* handle_user_input: validated_input is not None
IsValid(v) == v # None

\* no match: Logger.print_error and the prompt again
InvalidInput(tok) ==
    /\ AtPrompt
    /\ ValidateError(Top.menu) = ""
    /\ ~IsValid(Validated(tok))
    /\ Reads(tok, Validated(tok))
    /\ out' = ReadEvents(Top.menu, tok)
                \o <<E("print_error", Top.menu, None), E("prompt", Top.menu, None)>>
    /\ UNCHANGED <<subcfg, menus, created, stack, status, exit_code, error>>

\* the line tok is validated to a choice and run takes the given branch
Chooses(tok, v, branch) ==
    /\ IsValid(v)
    /\ RunBranch(v) = branch
    /\ Reads(tok, v)

\* choice == "q": Logger.print_ok and sys.exit(0)
Quit(tok) ==
    /\ AtPrompt
    /\ ValidateError(Top.menu) = ""
    /\ LET v == Validated(tok)
       IN  /\ Chooses(tok, v, "quit")
           /\ status' = "exit"
           /\ exit_code' = QuitCode
           /\ out' = ReadEvents(Top.menu, tok)
                       \o <<E("print_ok", Top.menu, None), E("exit", Top.menu, None)>>
    /\ UNCHANGED <<subcfg, menus, created, stack, error>>

\* choice == "b": run returns; the caller's loop, if any, displays and prompts
Back(tok) ==
    /\ AtPrompt
    /\ ValidateError(Top.menu) = ""
    /\ LET v == Validated(tok)
       IN  Chooses(tok, v, "return")
    /\ stack' = Returned(stack)
    /\ menus' = Live(menus, stack')
    /\ IF stack' = <<>>
       THEN /\ status' = "returned"
            /\ out' = ReadEvents(Top.menu, tok) \o <<E("return", Top.menu, None)>>
       ELSE LET p == stack'[Len(stack')].menu
            IN  /\ status' = "running"
                /\ out' = ReadEvents(Top.menu, tok)
                            \o <<E("return", Top.menu, None)>>
                            \o DisplayEvents(p, menus[p].cls)
    /\ UNCHANGED <<subcfg, created, exit_code, error>>

\* the line tok is validated to v and execute_option(v) takes the given branch
Executes(tok, v, branch) ==
    /\ Chooses(tok, v, "execute")
    /\ ExecuteBranch(v) = branch

ExecEvents(tok, v) ==
    ReadEvents(Top.menu, tok) \o <<E("execute_option", Top.menu, v)>>

\* entering the run loop of menu m of class cls from the innermost loop
Enters(m, cls, via, before) ==
    /\ stack' = Append(stack, Frame(m, Top.menu, via))
    /\ status' = StatusAfterDisplay(cls)
    /\ error' = ErrorAfterDisplay(cls)
    /\ out' = before \o DisplayEvents(m, cls)

\* option is a menu type: navigate_to_menu(option, True)
NavigateType(tok) ==
    /\ AtPrompt
    /\ ValidateError(Top.menu) = ""
    /\ created < MaxFresh
    /\ Len(stack) < MaxDepth
    /\ LET v == Validated(tok)
           new == Construct(v.cls, None)
       IN  /\ Executes(tok, v, "instantiate")
           /\ menus' = [i \in DOMAIN menus \cup {NewId} |->
                          IF i = NewId
                          THEN [new EXCEPT !.previous_menu =
                                   StampedPrevious(new.previous_menu, Top.menu)]
                          ELSE menus[i]]
           /\ Enters(NewId, v.cls, "navigate_to_menu", ExecEvents(tok, v))
    /\ created' = created + 1
    /\ UNCHANGED <<subcfg, exit_code>>

\* option is a menu instance: navigate_to_menu(option, False)
NavigateInstance(tok) ==
    /\ AtPrompt
    /\ ValidateError(Top.menu) = ""
    /\ Len(stack) < MaxDepth
    /\ LET v == Validated(tok)
           m == v.inst
       IN  /\ Executes(tok, v, "instance")
           /\ menus' = [menus EXCEPT ![m].previous_menu =
                          StampedPrevious(menus[m].previous_menu, Top.menu)]
           /\ Enters(m, menus[m].cls, "navigate_to_menu", ExecEvents(tok, v))
    /\ UNCHANGED <<subcfg, created, exit_code>>

\* option is a plain callable: option(), then the loop displays the menu again
CallAction(tok) ==
    /\ AtPrompt
    /\ ValidateError(Top.menu) = ""
    /\ LET v == Validated(tok)
       IN  /\ Executes(tok, v, "call")
           /\ v.inst = 0
           /\ out' = ExecEvents(tok, v)
                       \o <<E("call", Top.menu, v)>>
                       \o DisplayEvents(Top.menu, menus[Top.menu].cls)
    /\ UNCHANGED <<subcfg, menus, created, stack, status, exit_code, error>>

\* option is AdvancedMenu.build, flash or get_id: it constructs a menu with
\* previous_menu=self.__class__ and calls its run()
MenuAction(tok) ==
    /\ AtPrompt
    /\ ValidateError(Top.menu) = ""
    /\ created < MaxFresh
    /\ Len(stack) < MaxDepth
    /\ LET v == Validated(tok)
           self == v.inst
           cls == ActionMenu(v.fn)
       IN  /\ Executes(tok, v, "call")
           /\ v.inst # 0
           /\ menus' = [i \in DOMAIN menus \cup {NewId} |->
                          IF i = NewId THEN Construct(cls, ActionPrevious(self))
                          ELSE menus[i]]
           /\ Enters(NewId, cls, v.fn, ExecEvents(tok, v) \o <<E("call", Top.menu, v)>>)
    /\ created' = created + 1
    /\ UNCHANGED <<subcfg, exit_code>>

\* option is neither a menu nor callable: execute_option raises on None and
\* does nothing on anything else (a string such as "h"), after which the loop
\* displays the menu again
ExecuteOther(tok) ==
    /\ AtPrompt
    /\ ValidateError(Top.menu) = ""
    /\ LET v == Validated(tok)
       IN  /\ Chooses(tok, v, "execute")
           /\ ExecuteBranch(v) \in {"raise", "nothing"}
           /\ IF ExecuteBranch(v) = "raise"
              THEN /\ status' = "error"
                   /\ error' = "NotImplementedError"
                   /\ out' = ExecEvents(tok, v)
                               \o <<E("raise", Top.menu, Str("NotImplementedError"))>>
              ELSE /\ out' = ExecEvents(tok, v)
                               \o DisplayEvents(Top.menu, menus[Top.menu].cls)
                   /\ UNCHANGED <<status, error>>
    /\ UNCHANGED <<subcfg, menus, created, stack, exit_code>>

----------------------------------------------------------------------------
(* execute_option called by the application, outside any run loop *)

DirectOptions == {None, Callable("build_action")}

DirectCall(option) ==
    /\ status = "init"
    /\ ExecuteBranch(option) \in {"raise", "call"}
    /\ IF ExecuteBranch(option) = "raise"
       THEN /\ status' = "error"
            /\ error' = "NotImplementedError"
            /\ out' = <<E("execute_option", 1, option),
                        E("raise", 1, Str("NotImplementedError"))>>
       ELSE /\ out' = <<E("execute_option", 1, option), E("call", 1, option)>>
            /\ UNCHANGED <<status, error>>
    /\ UNCHANGED <<subcfg, menus, created, stack, exit_code,
                   raw, validated, at_menu, at_cls>>

----------------------------------------------------------------------------
(* A menu class instantiated by the application, outside any run loop *)

\* variant: every class can be instantiated
InstantiableAnyClass(cls) == TRUE

\* BaseMenu(ABC) with the abstract method print_menu, and the type test of
\* BaseMenu.__init__: whether cls() yields an instance
Instantiable(cls) == cls # "BaseMenu"

DirectClasses == {"BaseMenu", "AdvancedMenu"}

\* cls(): the application keeps the new menu and starts no session with it;
\* instantiating the abstract class raises TypeError before __init__ runs
DirectConstruct(cls) ==
    /\ status = "init"
    /\ IF Instantiable(cls)
       THEN /\ menus' = [i \in DOMAIN menus \cup {NewId} |->
                           IF i = NewId THEN Construct(cls, None) ELSE menus[i]]
            /\ created' = created + 1
            /\ status' = "built"
            /\ out' = <<E("construct", NewId, MenuType(cls))>>
            /\ UNCHANGED error
       ELSE /\ status' = "error"
            /\ error' = "TypeError"
            /\ out' = <<E("construct", 0, MenuType(cls)),
                        E("raise", 0, Str("TypeError"))>>
            /\ UNCHANGED <<menus, created>>
    /\ UNCHANGED <<subcfg, stack, exit_code, raw, validated, at_menu, at_cls>>

Next ==
    \/ Start
    \/ \E tok \in RawInputs : InputRaises(tok)
    \/ \E tok \in RawInputs : InvalidInput(tok)
    \/ \E tok \in RawInputs : Quit(tok)
    \/ \E tok \in RawInputs : Back(tok)
    \/ \E tok \in RawInputs : NavigateType(tok)
    \/ \E tok \in RawInputs : NavigateInstance(tok)
    \/ \E tok \in RawInputs : CallAction(tok)
    \/ \E tok \in RawInputs : MenuAction(tok)
    \/ \E tok \in RawInputs : ExecuteOther(tok)
    \/ \E option \in DirectOptions : DirectCall(option)
    \/ \E cls \in DirectClasses : DirectConstruct(cls)

Spec == Init /\ [][Next]_vars

----------------------------------------------------------------------------
(* Vocabulary of the properties *)

\* the navigation tokens each footer kind shows
LegalNav(f) ==
    CASE f = "QUIT" -> {"q"}
      [] f = "BACK" -> {"b"}
      [] f = "BACK_HELP" -> {"b", "h"}
      [] OTHER -> {}

NavLetters == {"b", "q", "h"}

IsOption(v) == v.kind \in {"callable", "type", "inst"}

\* the names of the events of a step, in order
Evs(sq) == [i \in DOMAIN sq |-> sq[i].ev]

Count(sq, ev) == Cardinality({ i \in DOMAIN sq : sq[i].ev = ev })

\* a line has been read and validate_user_input returned for it
ValidateReturned ==
    at_menu # 0 /\ ~(status = "error" /\ error \in {"AttributeError", "KeyError"})

\* the lower-cased line, and the attributes of the menu that read it
Token == Lower(raw)
Entry == Get(ClassOptions(at_cls, at_menu), Token)
FooterAt == footer_type(at_cls)
DefaultAt == default_option(at_cls)

\* the last step printed the invalid-input error and prompted again in the
\* same menu, and did nothing else
Reprompted ==
    /\ Evs(out) = <<"input", "print_error", "prompt">>
    /\ status = "running"
    /\ stack # <<>>
    /\ Top.menu = at_menu
    /\ out[3].m = at_menu

----------------------------------------------------------------------------
(* validate_user_input *)

\* C3: a token that keys an Option of the table validates to exactly that
\* Option, unless the lower-cased token is a navigation token legal for the
\* footer kind: then the token string is returned and the entry is neither
\* returned nor executed.
C3_OptionUnlessNavigation ==
    (ValidateReturned /\ IsOption(Entry)) =>
        IF Token \in LegalNav(FooterAt)
        THEN /\ validated = Str(Token)
             /\ \A i \in DOMAIN out : out[i].opt # Entry
        ELSE validated = Entry

\* a legal navigation token that also keys an action was read
C3_Witness ==
    /\ ValidateReturned
    /\ at_cls = "SubMenu"
    /\ FooterAt = "BACK"
    /\ raw = "b"
    /\ Entry = Callable("collide_action")
    /\ validated = Str("b")

\* C4: a token is treated as navigation exactly when it is legal for the
\* footer kind, whatever the option table holds; a navigation letter that is
\* not legal is looked up in the table, and with no entry and no default the
\* result is no match: error, new prompt, the loop neither returns nor exits.
C4_NavigationByFooterKind ==
    ValidateReturned =>
        /\ (validated = Str(Token) /\ Token \in NavLetters) <=> Token \in LegalNav(FooterAt)
        /\ (Token \in NavLetters \ LegalNav(FooterAt) /\ IsOption(Entry))
              => validated = Entry
        /\ (Token \in NavLetters \ LegalNav(FooterAt) /\ Entry = None /\ DefaultAt = None)
              => (validated = None /\ Reprompted)

\* "b" was typed in the quit-only main menu, which maps nothing to it
C4_Witness ==
    /\ ValidateReturned
    /\ FooterAt = "QUIT"
    /\ raw = "b"
    /\ Entry = None
    /\ validated = None
    /\ Reprompted

\* C5: a non-empty token that is neither a legal navigation token nor a key of
\* the option table is no match, with or without a default option: error,
\* new prompt, nothing executed.
C5_UnknownTokenIsNoMatch ==
    (ValidateReturned /\ Token # "" /\ Token \notin LegalNav(FooterAt) /\ Entry = None) =>
        /\ validated = None
        /\ Reprompted
        /\ Count(out, "execute_option") = 0

\* C6: the empty line validates to the default option, without an error, when
\* one is configured, and is no match (error, new prompt) when none is.
C6_EmptyInput ==
    (ValidateReturned /\ raw = "") =>
        IF DefaultAt # None
        THEN /\ validated = DefaultAt
             /\ Count(out, "print_error") = 0
        ELSE /\ validated = None
             /\ Reprompted

\* the empty line was typed in a menu with a default option
C6_Witness ==
    /\ ValidateReturned
    /\ raw = ""
    /\ DefaultAt = Callable("help_action")
    /\ validated = Callable("help_action")
    /\ Count(out, "call") = 1

----------------------------------------------------------------------------
(* The run loop and navigation *)

\* the step reads Str("b")/Str("q")/... in the innermost loop
Chose(v) == status = "running" /\ validated' = v

\* C1: the back token in a sub-menu entered through navigate_to_menu ends
\* that sub-menu's loop only, and the menu displayed and prompted next is the
\* instance that navigated into it, whichever parent that was.
C1_BackReturnsToCaller ==
    [][ (Chose(Str("b")) /\ Len(stack) >= 2 /\ Top.via = "navigate_to_menu") =>
            /\ stack' = SubSeq(stack, 1, Len(stack) - 1)
            /\ status' = "running"
            /\ stack'[Len(stack')].menu = Top.caller
            /\ out' = << E("input", Top.menu, Str(raw')),
                         E("return", Top.menu, None),
                         E("display_menu", Top.caller, None),
                         E("prompt", Top.caller, None) >> ]_vars

\* back was typed in the pre-built SubMenu, whose constructor named MainMenu,
\* after a MenuA instance navigated into it: the MenuA instance is prompting
C1_Witness ==
    /\ status = "running"
    /\ at_menu = 4
    /\ validated = Str("b")
    /\ Len(stack) = 2
    /\ menus[Top.menu].cls = "MenuA"
    /\ menus[4].previous_menu = MenuInst(Top.menu)
    /\ out[Len(out)] = E("prompt", Top.menu, None)

\* C2: the quit token, at any depth, prints the farewell and then exits the
\* process with status 0; nothing is displayed or prompted afterwards, at any
\* depth.
C2_QuitEndsSession ==
    [][ /\ Chose(Str("q")) =>
              /\ status' = "exit"
              /\ exit_code' = 0
              /\ stack' = stack
              /\ out' = << E("input", Top.menu, Str(raw')),
                           E("print_ok", Top.menu, None),
                           E("exit", Top.menu, None) >>
        /\ status = "exit" => UNCHANGED vars ]_vars

\* quit was typed two menus below the main menu
C2_Witness ==
    /\ status = "exit"
    /\ Len(stack) = 3
    /\ validated = Str("q")
    /\ at_menu = Top.menu

\* C7: a resolved choice other than quit and back goes through execute_option
\* exactly once (a callable is called exactly once), and once execute_option
\* has returned the same menu is displayed and prompts again; when the choice
\* opened a sub-menu that is when the sub-menu's loop returns.  No match gives
\* the error and a new prompt only.
C7_RunLoop ==
    [][ status = "running" =>
          /\ (validated' = None /\ error' = "") =>
                /\ Evs(out') = <<"input", "print_error", "prompt">>
                /\ out'[3].m = Top.menu
                /\ stack' = stack
                /\ status' = "running"
          /\ (validated' \notin {None, Str("q"), Str("b")}) =>
                /\ Count(out', "execute_option") = 1
                /\ out'[2] = E("execute_option", Top.menu, validated')
                /\ validated'.kind = "callable" =>
                      /\ Count(out', "call") = 1
                      /\ out'[3] = E("call", Top.menu, validated')
                /\ validated'.kind # "callable" => Count(out', "call") = 0
                /\ stack' = stack =>
                      /\ status' = "running"
                      /\ SubSeq(out', Len(out') - 1, Len(out')) =
                            << E("display_menu", Top.menu, None),
                               E("prompt", Top.menu, None) >>
                /\ stack' # stack =>
                      /\ Len(stack') = Len(stack) + 1
                      /\ stack'[Len(stack')].caller = Top.menu
          /\ (validated' = Str("b") /\ Len(stack) >= 2) =>
                SubSeq(out', Len(out') - 1, Len(out')) =
                    << E("display_menu", Top.caller, None),
                       E("prompt", Top.caller, None) >> ]_vars

\* "3" was typed in a MenuA (back-only footer, "3" mapped to build_action)
C7_Witness ==
    /\ status = "running"
    /\ at_cls = "MenuA"
    /\ raw = "3"
    /\ Top.menu = at_menu
    /\ out = << E("input", at_menu, Str("3")),
                E("execute_option", at_menu, Callable("build_action")),
                E("call", at_menu, Callable("build_action")),
                E("display_menu", at_menu, None),
                E("prompt", at_menu, None) >>

\* the last step entered a sub-menu's run loop from the innermost loop
JustEntered ==
    /\ Len(stack) >= 2
    /\ Len(out) >= 2
    /\ out[1] = E("input", Top.caller, Str(raw))
    /\ out[2].ev = "execute_option"
    /\ out[Len(out)].m = Top.menu
    /\ at_menu = Top.caller

\* C8: when a menu enters a sub-menu, the sub-menu's previous_menu is the
\* entering instance as its run loop starts, whatever its constructor set,
\* also when AdvancedMenu enters one through build, flash or get_id.
C8_PreviousMenuIsCaller ==
    JustEntered => menus[Top.menu].previous_menu = MenuInst(Top.caller)

\* C9: from a run loop execute_option is never called with None, so its
\* NotImplementedError does not occur there; called directly with None it
\* raises NotImplementedError and does nothing else.
C9_NoneIsNeverExecuted ==
    /\ at_menu # 0 =>
          /\ \A i \in DOMAIN out : out[i].ev = "execute_option" => out[i].opt # None
          /\ (status = "error" /\ error = "NotImplementedError") =>
                out[Len(out) - 1].ev = "print_menu"
    /\ (\E i \in DOMAIN out : out[i].ev = "execute_option" /\ out[i].opt = None) =>
          /\ at_menu = 0
          /\ status = "error"
          /\ error = "NotImplementedError"
          /\ Evs(out) = <<"execute_option", "raise">>
          /\ stack = <<>>
          /\ created = 0

\* a line with no match was read in a run loop: nothing was executed
C9_Witness ==
    /\ ValidateReturned
    /\ validated = None
    /\ Reprompted
    /\ Count(out, "execute_option") = 0

\* C10: the process exits only right after a run loop validated the quit
\* token, with status 0; back, no match and a called option leave it alive.
C10_ExitOnlyOnQuit ==
    /\ status = "exit" <=> exit_code # -1
    /\ status = "exit" =>
          /\ exit_code = 0
          /\ validated = Str("q")
          /\ Evs(out) = <<"input", "print_ok", "exit">>
    /\ (at_menu # 0 /\ validated = Str("b")) => status \in {"running", "returned"}
    /\ (ValidateReturned /\ validated = None) => status = "running"
    /\ Count(out, "call") > 0 => status \in {"init", "running"}

\* quit was typed in the main menu
C10_Witness ==
    /\ status = "exit"
    /\ exit_code = 0
    /\ Len(stack) = 1
    /\ raw = "Q"

----------------------------------------------------------------------------
(* The option table *)

\* C11: the option table of every menu whose run loop has displayed it is
\* populated (set_options has run) before the first display, and no line is
\* validated against a table that is still None.
C11_OptionsBeforeDisplay ==
    /\ \A k \in DOMAIN stack : menus[stack[k].menu].has_options
    /\ error # "AttributeError"

----------------------------------------------------------------------------
(* Failures *)

\* the menu of an active run loop has a footer kind print_footer has no case for
UnknownFooterAt(k) == footer_type(menus[stack[k].menu].cls) = UnknownFooter

\* C12: a menu with an unrecognised footer kind fails with NotImplementedError
\* in print_footer during its first display: its body is printed, then the
\* error is raised; the menu never prompts, reads, validates or executes
\* anything, and the error ends the process instead of being absorbed by a
\* run loop.
C12_UnknownFooterFails ==
    /\ [](\A k \in DOMAIN stack : UnknownFooterAt(k) =>
            LET m == stack[k].menu
            IN  /\ k = Len(stack)
                /\ status = "error"
                /\ error = "NotImplementedError"
                /\ Len(out) >= 2
                /\ SubSeq(out, Len(out) - 1, Len(out)) =
                      << E("print_menu", m, None),
                         E("raise", m, Str("NotImplementedError")) >>
                /\ \A i \in DOMAIN out :
                      out[i].m = m => out[i].ev \in {"print_menu", "raise"}
                /\ at_menu # m)
    /\ [][status = "error" => UNCHANGED vars]_vars

\* a MenuA or MenuB under the main menu navigated into a SubMenu with an
\* unrecognised footer kind
C12_Witness ==
    /\ Len(stack) = 3
    /\ UnknownFooterAt(3)
    /\ status = "error"
    /\ error = "NotImplementedError"
    /\ out[Len(out)].ev = "raise"

\* C13: instantiating the abstract class BaseMenu always fails with an error
\* and leaves no new menu instance behind, while instantiating a concrete
\* subclass that implements print_menu (AdvancedMenu) succeeds and yields a
\* new instance of that class.
C13_AbstractBaseNotConstructible ==
    [][ \A i \in DOMAIN out' : out'[i].ev = "construct" =>
          IF out'[i].opt = MenuType("BaseMenu")
          THEN /\ status' = "error"
               /\ error' # ""
               /\ menus' = menus
               /\ out'[i].m = 0
          ELSE /\ status' # "error"
               /\ error' = ""
               /\ out'[i].m \in DOMAIN menus' \ DOMAIN menus
               /\ menus'[out'[i].m].cls = out'[i].opt.cls ]_vars

\* the application tried BaseMenu()
C13_Witness ==
    /\ status = "error"
    /\ Len(out) = 2
    /\ out[1] = E("construct", 0, MenuType("BaseMenu"))
    /\ out[2].ev = "raise"
    /\ DOMAIN menus = Prebuilt

----------------------------------------------------------------------------
(* Help, navigation chains and dispatch *)

\* C14: in a menu with the back+help footer the line "h" is a valid
\* navigation token: no invalid-input error, the loop neither returns nor
\* exits; the string goes through execute_option like any resolved choice,
\* which does nothing with it, and the same menu is displayed and prompts
\* again.
C14_HelpIsDispatched ==
    [][ (status = "running" /\ Footer(Top.menu) = "BACK_HELP" /\ raw' = "h") =>
          /\ validated' = Str("h")
          /\ out' = << E("input", Top.menu, Str("h")),
                       E("execute_option", Top.menu, Str("h")),
                       E("display_menu", Top.menu, None),
                       E("prompt", Top.menu, None) >>
          /\ stack' = stack
          /\ menus' = menus
          /\ status' = "running"
          /\ exit_code' = -1 ]_vars

\* "h" was typed in the pre-built MenuB (back+help footer), entered from the
\* main menu
C14_Witness ==
    /\ status = "running"
    /\ Len(stack) = 2
    /\ Top.menu = 2
    /\ at_menu = 2
    /\ FooterAt = "BACK_HELP"
    /\ raw = "h"
    /\ validated = Str("h")
    /\ Count(out, "execute_option") = 1
    /\ Count(out, "print_error") = 0

\* C15: at every moment, every menu whose run loop is active and was entered
\* through navigate_to_menu has previous_menu equal to the instance whose run
\* loop is directly beneath it, also when a pre-built instance is entered
\* again while its own loop is still active.
C15_PreviousMenuIsLoopBeneath ==
    \A k \in DOMAIN stack :
        (k >= 2 /\ stack[k].via = "navigate_to_menu") =>
            /\ stack[k].caller = stack[k - 1].menu
            /\ menus[stack[k].menu].previous_menu = MenuInst(stack[k - 1].menu)

\* C16: execute_option dispatches by the shape of the option.  A menu type is
\* instantiated on every navigation, so the loop entered is that of an
\* instance of the type that no earlier visit has run; a pre-built instance
\* is run as it is, nothing is constructed; a plain callable is called
\* exactly once.  The sub-menu's loop is entered from the dispatching menu,
\* back in the sub-menu returns to the dispatching menu's loop, and after a
\* callable the dispatching menu is displayed and prompts again.
C16_DispatchByShape ==
    [][ status = "running" =>
          /\ validated'.kind = "type" =>
                /\ Len(stack') = Len(stack) + 1
                /\ stack'[Len(stack')].caller = Top.menu
                /\ stack'[Len(stack')].menu > Cardinality(Prebuilt) + created
                /\ stack'[Len(stack')].menu \notin DOMAIN menus
                /\ menus'[stack'[Len(stack')].menu].cls = validated'.cls
                /\ created' = created + 1
                /\ Count(out', "call") = 0
          /\ validated'.kind = "inst" =>
                /\ Len(stack') = Len(stack) + 1
                /\ stack'[Len(stack')].caller = Top.menu
                /\ stack'[Len(stack')].menu = validated'.inst
                /\ DOMAIN menus' = DOMAIN menus
                /\ created' = created
                /\ Count(out', "call") = 0
          /\ (validated'.kind = "callable" /\ validated'.inst = 0) =>
                /\ Count(out', "call") = 1
                /\ out'[3] = E("call", Top.menu, validated')
                /\ stack' = stack
                /\ menus' = menus
                /\ status' = "running"
                /\ out'[Len(out')] = E("prompt", Top.menu, None)
          /\ (validated' = Str("b") /\ Len(stack) >= 2
                /\ Top.via = "navigate_to_menu") =>
                /\ stack' = SubSeq(stack, 1, Len(stack) - 1)
                /\ status' = "running"
                /\ out'[Len(out')] = E("prompt", Top.caller, None) ]_vars

\* the main menu's "1" (the type MenuA) was chosen after an earlier
\* navigation had constructed a menu that is gone again: the loop entered
\* is that of a second, new instance
C16_Witness ==
    /\ status = "running"
    /\ created = 2
    /\ Len(stack) = 2
    /\ at_menu = 1
    /\ raw = "1"
    /\ validated = MenuType("MenuA")
    /\ Top.menu = Cardinality(Prebuilt) + 2
    /\ menus[Top.menu].cls = "MenuA"
    /\ DOMAIN menus = Prebuilt \cup {Top.menu}

----------------------------------------------------------------------------
(* The menu graph *)

\* the class and the instance id (0 for a type) of a menu named by an option
NodeCls(n) == IF n.kind = "inst" THEN PrebuiltCls[n.inst] ELSE n.cls
NodeId(n) == IF n.kind = "inst" THEN n.inst ELSE 0

\* the menu whose run loop an option enters, None if it enters none
Target(o) ==
    IF o.kind \in {"type", "inst"} THEN o
    ELSE IF o.kind = "callable" /\ o.inst # 0 THEN MenuType(ActionMenu(o.fn))
    ELSE None

\* the menus one choice away from menu n
Successors(n) ==
    { Target(p[2]) : p \in ClassOptions(NodeCls(n), NodeId(n)) } \ {None}

Max(S) == CHOOSE x \in S : \A y \in S : y <= x

\* the number of menus on the longest chain from n that enters no menu in seen
RECURSIVE Longest(_, _)
Longest(n, seen) ==
    LET next == Successors(n) \ seen
    IN  IF next = {} THEN 1
        ELSE 1 + Max({ Longest(s, seen \cup {s}) : s \in next })

\* the longest chain of menus of the graph that names no menu twice: the
\* five menus main menu, MenuA, SubMenu, pre-built MenuB, pre-built SubMenu
GraphBound == Longest(MenuInst(1), {MenuInst(1)})

\* C17: for every input sequence the number of simultaneously active run
\* loops stays within a bound fixed by the menu graph, here the length of its
\* longest chain of distinct menus, also when a table maps a token to a menu
\* that is an ancestor in the chain.
C17_NestingBounded ==
    Len(stack) <= GraphBound

----------------------------------------------------------------------------
(* AdvancedMenu *)

\* the method the claim names for each key of AdvancedMenu
MethodOfKey(k) ==
    CASE k = "3" -> "build"
      [] k = "4" -> "flash"
      [] k = "6" -> "get_id"

----------------------------------------------------------------------------
(* Case of the input *)

\* the upper-case lines and the tokens they stand for
UpperCased == { <<"B", "b">>, <<"Q", "q">> }

\* C19: input handling is case-insensitive.  For every line and the menu at
\* the prompt, validate_user_input gives the same result for the line and for
\* the lower-cased line, and lower-casing twice is lower-casing once; what the
\* run loop gets for a line typed is what validate_user_input gives for the
\* line as typed; "B" and "Q" are back and quit where the footer makes them
\* legal, and where it does not they select the entry under "b" or "q".
C19_CaseInsensitive ==
    /\ []((status = "running" /\ ValidateError(Top.menu) = "") =>
            \A s \in RawInputs :
                /\ validate_user_input(Top.menu, s)
                      = validate_user_input(Top.menu, Lower(s))
                /\ Lower(Lower(s)) = Lower(s))
    /\ [][ (status = "running" /\ ValidateError(Top.menu) = "") =>
             /\ validated' = validate_user_input(Top.menu, raw')
             /\ \A p \in UpperCased : raw' = p[1] =>
                   LET entry == Get(ClassOptions(menus[Top.menu].cls, Top.menu), p[2])
                   IN  /\ p[2] \in LegalNav(Footer(Top.menu)) =>
                             /\ validated' = Str(p[2])
                             /\ p[2] = "b" =>
                                   stack' = SubSeq(stack, 1, Len(stack) - 1)
                             /\ p[2] = "q" =>
                                   (status' = "exit" /\ exit_code' = 0)
                       /\ (p[2] \notin LegalNav(Footer(Top.menu)) /\ IsOption(entry)) =>
                             validated' = entry ]_vars

\* "B" was typed in a menu entered from the main menu and ended its loop
C19_Witness ==
    /\ status = "running"
    /\ raw = "B"
    /\ validated = Str("b")
    /\ Len(stack) = 1
    /\ at_menu # 1
    /\ out[2].ev = "return"

====
